---- MODULE Spec2Model ----
(***************************************************************************)
(* Restaurant inventory agent: the CSV loaders, the expiration-column      *)
(* resolvers, the date normalisation and the expired / expiring / fresh    *)
(* classifier of every entry point of the repository (command line         *)
(* report, Lambda handler and the Streamlit dashboards), and the           *)
(* recommendations the Lambda handler and the "Generate" buttons of the    *)
(* dashboards produce from the three partitions.                           *)
(*                                                                         *)
(* Column names are sequences of one-character strings so that lower(),    *)
(* strip() and the substring test are computed as Python computes them.    *)
(* A parsed date is a pandas Timestamp: an instant counted in hours since  *)
(* midnight of day 0, hour 0 of a day being midnight.                      *)
(***************************************************************************)
EXTENDS Integers, Sequences, FiniteSets, TLC

(***************************************************************************)
(* Bounds of the model                                                     *)
(***************************************************************************)
MaxRows == 2
TodayMin == 1
ClockSteps == 1
TodayMax == TodayMin + ClockSteps
\* number of rows of the tables that exercise the row limits
MaxLong == 11

(***************************************************************************)
(* Program constants                                                       *)
(***************************************************************************)
HorizonDays == 7
\* if idx >= 10 (ultra_safe_dashboard), if idx >= 5 (secure_dashboard),
\* head(5) (simple_secure_dashboard), tolist()[:5] (Lambda)
RowLimitUltraSafe == 10
RowLimitSecure == 5
RowLimitSimpleSecure == 5
RowLimitLambda == 5

AliasExpirationDate == <<"e", "x", "p", "i", "r", "a", "t", "i", "o", "n", "_", "d", "a", "t", "e">>
AliasExpiryDate == <<"e", "x", "p", "i", "r", "y", "_", "d", "a", "t", "e">>
AliasExpires == <<"e", "x", "p", "i", "r", "e", "s">>
AliasBestBefore == <<"b", "e", "s", "t", "_", "b", "e", "f", "o", "r", "e">>

\* possible_cols = ["expiration_date", "expiry_date", "expires", "best_before"]
possible_cols == {AliasExpirationDate, AliasExpiryDate, AliasExpires, AliasBestBefore}

SubExpir == <<"e", "x", "p", "i", "r">>
SubDate == <<"d", "a", "t", "e">>

(***************************************************************************)
(* Python string operations on column names                                *)
(***************************************************************************)
UpperLetters == <<"A", "B", "C", "D", "E", "F", "G", "H", "I", "J", "K", "L", "M", "N", "O", "P", "Q", "R", "S", "T", "U", "V", "W", "X", "Y", "Z">>
LowerLetters == <<"a", "b", "c", "d", "e", "f", "g", "h", "i", "j", "k", "l", "m", "n", "o", "p", "q", "r", "s", "t", "u", "v", "w", "x", "y", "z">>

LowerMap ==
    [c \in {UpperLetters[i] : i \in 1..Len(UpperLetters)} |->
        LowerLetters[CHOOSE i \in 1..Len(UpperLetters) : UpperLetters[i] = c]]

LowerChar(c) == IF c \in DOMAIN LowerMap THEN LowerMap[c] ELSE c

\* str.lower()
Lower(s) == [i \in 1..Len(s) |-> LowerChar(s[i])]

IsSpace(c) == c = " "

RECURSIVE LStrip(_)
LStrip(s) == IF s # <<>> /\ IsSpace(Head(s)) THEN LStrip(Tail(s)) ELSE s

RECURSIVE RStrip(_)
RStrip(s) ==
    IF s # <<>> /\ IsSpace(s[Len(s)]) THEN RStrip(SubSeq(s, 1, Len(s) - 1)) ELSE s

\* str.strip()
Strip(s) == RStrip(LStrip(s))

\* sub in s
Contains(s, sub) ==
    \E i \in 1..(Len(s) - Len(sub) + 1) : SubSeq(s, i, i + Len(sub) - 1) = sub

(***************************************************************************)
(* Column resolution: position of the first matching column, 0 for None    *)
(***************************************************************************)
FirstMatch(matches) ==
    IF \E j \in 1..Len(matches) : matches[j]
    THEN CHOOSE j \in 1..Len(matches) :
            /\ matches[j]
            /\ \A k \in 1..(j - 1) : ~matches[k]
    ELSE 0

\* next((c for c in df.columns if c.lower() in possible_cols), None)
MatchLower(c) == Lower(c) \in possible_cols

\* col.lower().strip() in [c.lower() for c in possible_cols]
MatchLowerStrip(c) == Strip(Lower(c)) \in {Lower(a) : a \in possible_cols}

\* 'expir' in col.lower() or 'date' in col.lower()
MatchSubstring(c) == Contains(Lower(c), SubExpir) \/ Contains(Lower(c), SubDate)

\* col.lower() in [c.lower() for c in possible_cols]
MatchLowerList(c) == Lower(c) \in {Lower(a) : a \in possible_cols}

(***************************************************************************)
(* Raw CSV cells and pandas.to_datetime(errors="coerce")                   *)
(***************************************************************************)
\* a cell holding a date or date-time text: calendar day and hour of the day
DateCell(d, t) == [kind |-> "datetime", day |-> d, tod |-> t]
\* a cell holding text that is no date ("not-a-date", "Milk")
TextCell == [kind |-> "text", day |-> 0, tod |-> 0]
\* an empty cell (read by pandas as NaN)
EmptyCell == [kind |-> "empty", day |-> 0, tod |-> 0]

NaT == [ok |-> FALSE, ts |-> 0]
Timestamp(d, t) == [ok |-> TRUE, ts |-> d * 24 + t]

\* pd.to_datetime(value, errors="coerce"): the time of day is kept
ToDatetime(cell) ==
    IF cell.kind = "datetime" THEN Timestamp(cell.day, cell.tod) ELSE NaT

\* pd.isna(value)
IsNa(date) == ~date.ok

\* Timestamp.date(): the calendar day of an instant
DateOf(date) == date.ts \div 24

\* pd.Timestamp(datetime.now().date()): midnight of the current day
TodayTimestamp(now) == now * 24

\* today + pd.Timedelta(days=7)
Soon(now) == TodayTimestamp(now) + HorizonDays * 24

(***************************************************************************)
(* Data frames: sequences of rows [idx, date]; idx is the row's position   *)
(* in the CSV file, date the converted cell of the expiration column       *)
(***************************************************************************)
\* df = pd.read_csv(path); df[date_col] = pd.to_datetime(df[date_col], errors="coerce")
ConvertDates(table, col) ==
    [i \in 1..Len(table.rows) |-> [idx |-> i, date |-> ToDatetime(table.rows[i][col])]]

\* df.dropna(subset=[date_col])
DropNa(df) == SelectSeq(df, LAMBDA r : ~IsNa(r.date))

\* df[date_col].isna().any()
AnyNa(df) == \E i \in 1..Len(df) : IsNa(df[i].date)

Indices(df) == [i \in 1..Len(df) |-> df[i].idx]

(***************************************************************************)
(* The classifier: comparisons of Timestamps, NaT comparing False          *)
(***************************************************************************)
ExpiredMaskInclusive(date, now) == date.ok /\ date.ts <= TodayTimestamp(now)
\* df[date_col] < today
ExpiredMask(date, now) == date.ok /\ date.ts < TodayTimestamp(now)

ExpiringMaskStrictLower(date, now) ==
    date.ok /\ date.ts > TodayTimestamp(now) /\ date.ts <= Soon(now)
ExpiringMaskExclusiveUpper(date, now) ==
    date.ok /\ date.ts >= TodayTimestamp(now) /\ date.ts < Soon(now)
\* (df[date_col] >= today) & (df[date_col] <= soon)
ExpiringMask(date, now) ==
    date.ok /\ date.ts >= TodayTimestamp(now) /\ date.ts <= Soon(now)

\* df[date_col] > soon
FreshMask(date, now) == date.ok /\ date.ts > Soon(now)

\* expired, expiring_7d, fresh = the three masked copies of df
slice_inventory(df, now) ==
    [expired |-> Indices(SelectSeq(df, LAMBDA r : ExpiredMask(r.date, now))),
     expiring_7d |-> Indices(SelectSeq(df, LAMBDA r : ExpiringMask(r.date, now))),
     fresh |-> Indices(SelectSeq(df, LAMBDA r : FreshMask(r.date, now)))]

slice_inventory_local(df, now) == slice_inventory(df, now)
slice_inventory_safe(df, now) == slice_inventory(df, now)
analyze_inventory_safe(df, now) == slice_inventory(df, now)
analyze_inventory_secure(df, now) == slice_inventory(df, now)

(***************************************************************************)
(* Input tables: the content of inventory.csv (or of the S3 object)        *)
(***************************************************************************)
ColItem == <<"i", "t", "e", "m">>
ColQuantity == <<"q", "u", "a", "n", "t", "i", "t", "y">>
ColCategory == <<"c", "a", "t", "e", "g", "o", "r", "y">>
ColDateReceived == <<"d", "a", "t", "e", "_", "r", "e", "c", "e", "i", "v", "e", "d">>
ColExpirationDate == <<"e", "x", "p", "i", "r", "a", "t", "i", "o", "n", "_", "d", "a", "t", "e">>
ColExpiryDateMixed == <<"E", "x", "p", "i", "r", "y", "_", "D", "a", "t", "e">>
ColExpiryDatePadded == <<" ", "E", "x", "p", "i", "r", "y", "_", "D", "a", "t", "e", " ">>
ColExpires == <<"e", "x", "p", "i", "r", "e", "s">>
ColBestBefore == <<"b", "e", "s", "t", "_", "b", "e", "f", "o", "r", "e">>

\* columns whose cells are free text or numbers, never dates
TextColumns == {ColItem, ColQuantity, ColCategory}

\* the columns of the shipped inventory.csv that the dashboards name
StandardHeader == <<ColItem, ColQuantity, ColCategory, ColExpirationDate>>

OtherHeaders ==
    { <<ColItem, ColExpiryDateMixed, ColQuantity>>,
      <<ColItem, ColDateReceived>>,
      <<ColItem, ColExpiryDatePadded>>,
      <<ColExpires, ColBestBefore>>,
      <<ColDateReceived, ColExpirationDate>>,
      <<ColItem, ColBestBefore>>,
      <<ColItem, ColQuantity>> }

\* the calendar days around both ends of the window of the first day
Days ==
    {TodayMin - 1, TodayMin, TodayMin + HorizonDays, TodayMin + HorizonDays + 1}

\* a plain date (midnight) or a date with the time 10:00
TimesOfDay == {0, 10}

DateCells == {DateCell(d, t) : d \in Days, t \in TimesOfDay}

AllCells == DateCells \cup {TextCell, EmptyCell}

SampleCells ==
    {TextCell, DateCell(TodayMin, 0), DateCell(TodayMin + HorizonDays, 10)}

SeqsUpTo(S, n) == UNION {[1..k -> S] : k \in 0..n}

\* a cell of the category column
CategoryCell(c) == [kind |-> "text", day |-> 0, tod |-> 0, text |-> c]

\* the category names, in alphabetical order
Categories == <<"dairy", "produce">>

\* a row of the file: the date cell under every date-like column, a
\* category under 'category', text elsewhere
MkRecRow(header, cell, cat) ==
    [j \in 1..Len(header) |->
        IF header[j] = ColCategory THEN CategoryCell(cat)
        ELSE IF header[j] \in TextColumns THEN TextCell ELSE cell]

MkRow(header, cell) == MkRecRow(header, cell, Categories[1])

MkTable(header, cells) ==
    [header |-> header, rows |-> [i \in 1..Len(cells) |-> MkRow(header, cells[i])]]

InputTables ==
    {MkTable(StandardHeader, cells) : cells \in SeqsUpTo(AllCells, MaxRows)}
    \cup {MkTable(h, cells) : h \in OtherHeaders, cells \in SeqsUpTo(SampleCells, MaxRows)}

\* Tables for the recommendations: with and without the optional columns
\* 'item' and 'category', rows dated around the window with a category each
NoItemHeader == <<ColCategory, ColExpirationDate>>
NoCategoryHeader == <<ColItem, ColExpirationDate>>
RecHeaders == {StandardHeader, NoItemHeader, NoCategoryHeader}

RecRow(d, c) == [cell |-> DateCell(d, 0), cat |-> Categories[c]]

\* an expired row, two rows of different categories that expire today and
\* a row that expires on the last day of the window
RecRows ==
    {RecRow(TodayMin - 1, 1), RecRow(TodayMin, 1), RecRow(TodayMin, 2),
     RecRow(TodayMin + HorizonDays, 1)}

MkRecTable(header, rows) ==
    [header |-> header,
     rows |-> [i \in 1..Len(rows) |-> MkRecRow(header, rows[i].cell, rows[i].cat)]]

\* k rows that are expired followed by m rows that expire on day
\* TodayMin + HorizonDays
LongRows(k, m) ==
    [i \in 1..(k + m) |->
        RecRow(IF i <= k THEN TodayMin - 1 ELSE TodayMin + HorizonDays, 1)]

LongTables == {MkRecTable(StandardHeader, LongRows(k, MaxLong - k)) : k \in 0..MaxLong}

RecTables ==
    {MkRecTable(h, rows) : h \in RecHeaders, rows \in SeqsUpTo(RecRows, MaxRows)}
    \cup LongTables

\* the resolvers applied to every header of the input tables, computed once
AllHeaders == {StandardHeader} \cup OtherHeaders \cup RecHeaders
ResolveLower == [h \in AllHeaders |-> FirstMatch([j \in 1..Len(h) |-> MatchLower(h[j])])]
ResolveLowerList == [h \in AllHeaders |-> FirstMatch([j \in 1..Len(h) |-> MatchLowerList(h[j])])]
ResolveLowerStrip == [h \in AllHeaders |-> FirstMatch([j \in 1..Len(h) |-> MatchLowerStrip(h[j])])]
ResolveSubstring == [h \in AllHeaders |-> FirstMatch([j \in 1..Len(h) |-> MatchSubstring(h[j])])]

(***************************************************************************)
(* Chart status labels                                                     *)
(***************************************************************************)
\* 'Expired' if x < 0 else 'Expiring Soon' if x <= 7 else 'Fresh'
categorize_status(days) ==
    IF days < 0 THEN "Expired" ELSE IF days <= 7 THEN "Expiring Soon" ELSE "Fresh"

\* calc_days of create_expiration_chart: 0 for a missing date
calc_days(date, now) == IF IsNa(date) THEN 0 ELSE DateOf(date) - now

\* streamlit_inventory_app: every row of df gets a status
create_expiration_chart(df, now) ==
    [i \in 1..Len(df) |->
        [idx |-> df[i].idx, status |-> categorize_status(calc_days(df[i].date, now))]]

\* ultra_safe_dashboard: rows with a missing date are skipped
create_simple_chart(df, now) ==
    LET dated == SelectSeq(df, LAMBDA r : ~IsNa(r.date))
    IN [i \in 1..Len(dated) |->
          [idx |-> dated[i].idx,
           status |-> categorize_status(DateOf(dated[i].date) - now)]]

\* secure_dashboard: the same loop as create_simple_chart
create_status_chart(df, now) == create_simple_chart(df, now)

\* bulletproof_dashboard: no chart for an empty frame or on an exception
create_safe_chart(df, now) ==
    IF df = <<>> \/ AnyNa(df) THEN <<>>
    ELSE [i \in 1..Len(df) |->
            [idx |-> df[i].idx,
             status |-> categorize_status(DateOf(df[i].date) - now)]]

(***************************************************************************)
(* Loaders.  A load result is                                              *)
(*   error      "none" or the condition that ended the load                *)
(*   date_col   position of the resolved column, 0 for None                *)
(*   total      rows read from the CSV                                     *)
(*   df         the frame handed to the classifier                         *)
(*   warned     a warning was shown next to the successful result          *)
(*   warn_count the number of removed rows the warning states (0: none)    *)
(***************************************************************************)
LoadError(kind, col, n) ==
    [error |-> kind, date_col |-> col, total |-> n, df |-> <<>>,
     warned |-> FALSE, warn_count |-> 0]

LoadOk(col, n, frame, w, wc) ==
    [error |-> "none", date_col |-> col, total |-> n, df |-> frame,
     warned |-> w, warn_count |-> wc]

\* inventory_agent.load_inventory: raises on an empty CSV, on no column and
\* on any date that failed to parse
load_inventory(table) ==
    LET n == Len(table.rows)
        col == ResolveLower[table.header]
        df == ConvertDates(table, col)
    IN IF n = 0 THEN LoadError("EmptySource", 0, n)
       ELSE IF col = 0 THEN LoadError("ColumnNotFound", 0, n)
       ELSE IF AnyNa(df) THEN LoadError("DateParseFailure", col, n)
       ELSE LoadOk(col, n, df, FALSE, 0)

load_inventory_local_unchecked(table) ==
    LET n == Len(table.rows)
        col == ResolveLower[table.header]
    IN IF n = 0 THEN LoadError("EmptySource", 0, n)
       ELSE IF col = 0 THEN LoadError("ColumnNotFound", 0, n)
       ELSE LoadOk(col, n, ConvertDates(table, col), FALSE, 0)
\* streamlit_inventory_app.load_inventory_local: the same as load_inventory
load_inventory_local(table) ==
    LET n == Len(table.rows)
        col == ResolveLower[table.header]
        df == ConvertDates(table, col)
    IN IF n = 0 THEN LoadError("EmptySource", 0, n)
       ELSE IF col = 0 THEN LoadError("ColumnNotFound", 0, n)
       ELSE IF AnyNa(df) THEN LoadError("DateParseFailure", col, n)
       ELSE LoadOk(col, n, df, FALSE, 0)

\* ultra_safe_dashboard.load_inventory_ultra_safe
load_inventory_ultra_safe(table) ==
    LET original_count == Len(table.rows)
        col == ResolveLowerStrip[table.header]
        df == DropNa(ConvertDates(table, col))
    IN IF original_count = 0 THEN LoadError("EmptySource", 0, original_count)
       ELSE IF col = 0 THEN LoadError("ColumnNotFound", 0, original_count)
       ELSE IF df = <<>> THEN LoadError("NoValidDates", col, original_count)
       ELSE LoadOk(col, original_count, df, Len(df) < original_count,
                   original_count - Len(df))

\* secure_dashboard.load_inventory_secure
load_inventory_secure(table) ==
    LET original_count == Len(table.rows)
        col == ResolveLowerStrip[table.header]
        df == DropNa(ConvertDates(table, col))
    IN IF original_count = 0 THEN LoadError("EmptySource", 0, original_count)
       ELSE IF col = 0 THEN LoadError("ColumnNotFound", 0, original_count)
       ELSE IF df = <<>> THEN LoadError("NoValidDates", col, original_count)
       ELSE LoadOk(col, original_count, df, Len(df) < original_count,
                   original_count - Len(df))

\* bulletproof_dashboard.load_inventory_safe: the warning states no count and
\* a frame left empty by dropna is returned as a success
load_inventory_safe(table) ==
    LET n == Len(table.rows)
        col == ResolveLower[table.header]
        df == ConvertDates(table, col)
    IN IF n = 0 THEN LoadError("EmptySource", 0, n)
       ELSE IF col = 0 THEN LoadError("ColumnNotFound", 0, n)
       ELSE IF AnyNa(df) THEN LoadOk(col, n, DropNa(df), TRUE, 0)
       ELSE LoadOk(col, n, df, FALSE, 0)

\* simple_secure_dashboard.load_inventory_data, up to the classification
load_inventory_data(table) ==
    LET n == Len(table.rows)
        col == ResolveSubstring[table.header]
    IN IF n = 0 THEN LoadError("EmptySource", 0, n)
       ELSE IF col = 0 THEN LoadError("ColumnNotFound", 0, n)
       ELSE LoadOk(col, n, DropNa(ConvertDates(table, col)), FALSE, 0)

\* lambda_inventory_agent.analyze_inventory, up to the classification: no
\* test of df.empty, rows without a date dropped without a warning
analyze_inventory_load(table) ==
    LET n == Len(table.rows)
        col == ResolveLowerList[table.header]
    IN IF col = 0 THEN LoadError("ColumnNotFound", 0, n)
       ELSE LoadOk(col, n, DropNa(ConvertDates(table, col)), FALSE, 0)

(***************************************************************************)
(* Recommendations: the output is a sequence of lines                      *)
(*   [section, kind, idx, n, cat]                                          *)
(* section is "Immediate", "Priority", "Category" or "General"; kind is    *)
(* "header", "item" (a row with its date or days left), "plain" (a row     *)
(* without either), "more" (the '... and N more' line), "count" (a         *)
(* category with its count), "tip" or "entry" (a record of the Lambda's    *)
(* list).  idx is the row of the file the line is about, n the day of      *)
(* expiry (Immediate item), days_left (Priority item), N (more), the       *)
(* count (count), the number of the tip or the number of items listed      *)
(* (entry).  The empty st.markdown("") separators are left out.            *)
(***************************************************************************)
Line(section, kind, idx, n, cat) ==
    [section |-> section, kind |-> kind, idx |-> idx, n |-> n, cat |-> cat]

SectionHeader(section) == Line(section, "header", 0, 0, "")

\* the closing section: its heading and k fixed tips
GeneralSection(k) ==
    <<SectionHeader("General")>> \o [i \in 1..k |-> Line("General", "tip", 0, i, "")]

\* 'item' in df.columns, 'category' in urgent_items.columns
HasColumn(table, name) == \E j \in 1..Len(table.header) : table.header[j] = name

\* item[date_col] of the row of the frame with file position idx
FrameDate(df, idx) == df[CHOOSE k \in 1..Len(df) : df[k].idx = idx].date

\* item['category'] of the row of the file at position idx
CategoryOf(table, idx) ==
    table.rows[idx][CHOOSE j \in 1..Len(table.header) : table.header[j] = ColCategory].text

\* item[date_col].strftime('%Y-%m-%d'): the calendar day of the date
ExpiredLine(df, idx) == Line("Immediate", "item", idx, DateOf(FrameDate(df, idx)), "")

\* days_left = (item[date_col].date() - datetime.now().date()).days
days_left(date, now) == DateOf(date) - now

PriorityLine(df, idx, now) ==
    Line("Priority", "item", idx, days_left(FrameDate(df, idx), now), "")

\* what a "Generate" button or generate_recommendations produced: failed is
\* an exception that ended the script, lines what was emitted, now the day
\* datetime.now() gave while they were made
Rec(lines, now) == [generated |-> TRUE, failed |-> FALSE, lines |-> lines, now |-> now]
Failed(lines, now) == [generated |-> TRUE, failed |-> TRUE, lines |-> lines, now |-> now]
NoRec == [generated |-> FALSE, failed |-> FALSE, lines |-> <<>>, now |-> 0]

ImmediateActionsNoSummary(df, expired, limit) ==
    IF expired = <<>> THEN <<>>
    ELSE <<SectionHeader("Immediate")>>
         \o [k \in 1..(IF Len(expired) > limit THEN limit ELSE Len(expired)) |->
                ExpiredLine(df, expired[k])]
\* ultra_safe_dashboard, secure_dashboard: for idx, (_, item) in
\* enumerate(expired.iterrows()): at idx >= limit the '... and N more' line
\* and break, else the line of the item (item.get('item', 'Unknown item'))
ImmediateActions(df, expired, limit) ==
    IF expired = <<>> THEN <<>>
    ELSE <<SectionHeader("Immediate")>>
         \o [k \in 1..(IF Len(expired) > limit THEN limit ELSE Len(expired)) |->
                ExpiredLine(df, expired[k])]
         \o (IF Len(expired) > limit
             THEN <<Line("Immediate", "more", 0, Len(expired) - limit, "")>>
             ELSE <<>>)

\* the same loop over expiring_7d
PriorityActions(df, expiring_7d, now, limit) ==
    IF expiring_7d = <<>> THEN <<>>
    ELSE <<SectionHeader("Priority")>>
         \o [k \in 1..(IF Len(expiring_7d) > limit THEN limit ELSE Len(expiring_7d)) |->
                PriorityLine(df, expiring_7d[k], now)]
         \o (IF Len(expiring_7d) > limit
             THEN <<Line("Priority", "more", 0, Len(expiring_7d) - limit, "")>>
             ELSE <<>>)

\* ultra_safe_dashboard.main, "Generate Action Plan"
action_plan_ultra_safe(df, parts, now) ==
    ImmediateActions(df, parts.expired, RowLimitUltraSafe)
    \o PriorityActions(df, parts.expiring_7d, now, RowLimitUltraSafe)
    \o GeneralSection(5)

\* secure_dashboard.show_dashboard, "Generate Action Plan"
action_plan_secure(df, parts, now) ==
    ImmediateActions(df, parts.expired, RowLimitSecure)
    \o PriorityActions(df, parts.expiring_7d, now, RowLimitSecure)
    \o GeneralSection(4)

\* expired.head(5).iterrows(): lines without a date, no summary line
HeadLines(section, part) ==
    IF part = <<>> THEN <<>>
    ELSE <<SectionHeader(section)>>
         \o [k \in 1..(IF Len(part) > RowLimitSimpleSecure
                       THEN RowLimitSimpleSecure ELSE Len(part)) |->
                Line(section, "plain", part[k], 0, "")]

\* simple_secure_dashboard.show_dashboard, "Generate Action Plan"
action_plan_simple_secure(parts) ==
    HeadLines("Immediate", parts.expired)
    \o HeadLines("Priority", parts.expiring_7d)
    \o GeneralSection(3)

\* one record of the Lambda's list: 'items' is part['item'].tolist()[:5]
\* if 'item' in part.columns else []
LambdaEntry(table, section, part) ==
    Line(section, "entry", 0,
         IF ~HasColumn(table, ColItem) THEN 0
         ELSE IF Len(part) > RowLimitLambda THEN RowLimitLambda ELSE Len(part),
         "")

\* lambda_inventory_agent.generate_recommendations
generate_recommendations(table, parts) ==
    (IF parts.expired # <<>>
     THEN <<LambdaEntry(table, "Immediate", parts.expired)>> ELSE <<>>)
    \o (IF parts.expiring_7d # <<>>
        THEN <<LambdaEntry(table, "Priority", parts.expiring_7d)>> ELSE <<>>)
    \o <<Line("General", "entry", 0, 0, "")>>

\* part.to_dict('records') if not part.empty else []: one record per row
to_dict_records(df, part) ==
    [k \in 1..Len(part) |-> [idx |-> part[k], date |-> FrameDate(df, part[k])]]

analyze_inventory_all_rows(table, now, t) ==
    LET load == analyze_inventory_load(table)
        df == load.df
        parts == slice_inventory(df, now)
    IN IF load.error # "none"
       THEN [error |-> "No expiration date column found"]
       ELSE [analysis_date |-> [day |-> now, instant |-> t],
             total_items |-> Len(table.rows),
             expired_count |-> Len(parts.expired),
             expiring_soon_count |-> Len(parts.expiring_7d),
             fresh_count |-> Len(parts.fresh),
             expired_items |-> to_dict_records(df, parts.expired),
             expiring_soon_items |-> to_dict_records(df, parts.expiring_7d),
             recommendations |-> generate_recommendations(table, parts)]
\* lambda_inventory_agent.analyze_inventory: the dict it returns, a dict
\* with the one key 'error' when no column resolves; now is the day and t
\* the instant datetime.now() gives
analyze_inventory(table, now, t) ==
    LET load == analyze_inventory_load(table)
        df == load.df
        parts == slice_inventory(df, now)
    IN IF load.error # "none"
       THEN [error |-> "No expiration date column found"]
       ELSE [analysis_date |-> [day |-> now, instant |-> t],
             total_items |-> Len(df),
             expired_count |-> Len(parts.expired),
             expiring_soon_count |-> Len(parts.expiring_7d),
             fresh_count |-> Len(parts.fresh),
             expired_items |-> to_dict_records(df, parts.expired),
             expiring_soon_items |-> to_dict_records(df, parts.expiring_7d),
             recommendations |-> generate_recommendations(table, parts)]

\* for _, item in expired.iterrows(): every row, in the order of the frame
AllExpiredLines(df, expired) ==
    IF expired = <<>> THEN <<>>
    ELSE <<SectionHeader("Immediate")>>
         \o [k \in 1..Len(expired) |-> ExpiredLine(df, expired[k])]

\* for _, item in expiring_7d.iterrows()
AllPriorityLines(df, expiring_7d, now) ==
    IF expiring_7d = <<>> THEN <<>>
    ELSE <<SectionHeader("Priority")>>
         \o [k \in 1..Len(expiring_7d) |-> PriorityLine(df, expiring_7d[k], now)]

\* urgent_items = pd.concat([expired, expiring_7d])
UrgentItems(parts) == parts.expired \o parts.expiring_7d

\* urgent_items['category']
UrgentCategories(table, parts) ==
    [k \in 1..Len(UrgentItems(parts)) |-> CategoryOf(table, UrgentItems(parts)[k])]

CountOf(values, v) == Len(SelectSeq(values, LAMBDA x : x = v))

\* Series.value_counts(): the distinct values by descending count.  pandas
\* states no order among equal counts, so every order of them is possible
value_counts(values) ==
    LET keys == {values[k] : k \in 1..Len(values)}
        n == Cardinality(keys)
    IN {order \in [1..n -> keys] :
           /\ \A i, j \in 1..n : i # j => order[i] # order[j]
           /\ \A i \in 1..(n - 1) :
                 CountOf(values, order[i]) >= CountOf(values, order[i + 1])}

\* the orders categories.items() can have; nothing is counted without the column
CategoryOrders(table, parts) ==
    IF HasColumn(table, ColCategory)
    THEN value_counts(UrgentCategories(table, parts))
    ELSE {<<>>}

\* "Category Analysis": for category, count in categories.items()
CategoryAnalysis(table, parts, categories) ==
    <<SectionHeader("Category")>>
    \o [k \in 1..Len(categories) |->
           Line("Category", "count", 0,
                CountOf(UrgentCategories(table, parts), categories[k]), categories[k])]

\* bulletproof_dashboard.main, "Generate Recommendations": every line is
\* emitted as it is made, item['item'] raises KeyError without the column,
\* the category section is guarded by 'category' in urgent_items.columns
recommendations_bulletproof(table, df, parts, now, categories) ==
    IF ~HasColumn(table, ColItem) /\ parts.expired # <<>>
    THEN Failed(<<SectionHeader("Immediate")>>, now)
    ELSE IF ~HasColumn(table, ColItem) /\ parts.expiring_7d # <<>>
    THEN Failed(<<SectionHeader("Priority")>>, now)
    ELSE Rec(AllExpiredLines(df, parts.expired)
             \o AllPriorityLines(df, parts.expiring_7d, now)
             \o (IF UrgentItems(parts) # <<>> /\ HasColumn(table, ColCategory)
                 THEN CategoryAnalysis(table, parts, categories) ELSE <<>>)
             \o GeneralSection(4), now)

\* streamlit_inventory_app.main, "Generate Basic Recommendations": the
\* lines are collected in a list and emitted at the end; item['item'] and
\* urgent_items['category'] raise KeyError without their column
recommendations_basic(table, df, parts, now, categories) ==
    IF UrgentItems(parts) # <<>>
       /\ (~HasColumn(table, ColItem) \/ ~HasColumn(table, ColCategory))
    THEN Failed(<<>>, now)
    ELSE Rec(AllExpiredLines(df, parts.expired)
             \o AllPriorityLines(df, parts.expiring_7d, now)
             \o (IF UrgentItems(parts) # <<>>
                 THEN CategoryAnalysis(table, parts, categories) ELSE <<>>)
             \o GeneralSection(4), now)

(***************************************************************************)
(* State                                                                   *)
(***************************************************************************)
VARIABLES
    csv,     \* the inventory table on disk / in the bucket
    today,   \* the calendar day datetime.now().date() returns
    cache,   \* st.cache_data entry of load_and_analyze_inventory
    out,     \* what the last run of an entry point produced
    bucket,       \* the objects of the S3 bucket, by key
    invocations,  \* the lambda_handler invocations in flight
    instant,      \* the wall clock datetime.now() reads, in ticks
    session,      \* st.session_state of the browser session of a login page
    users         \* the file users.json

lambdaVars == <<bucket, invocations, instant>>
authVars == <<session, users>>
vars == <<csv, today, cache, out, lambdaVars, authVars>>

NoParts == [expired |-> <<>>, expiring_7d |-> <<>>, fresh |-> <<>>]

\* the alias names the message for an unresolved column lists:
\* inventory_agent.load_inventory, ValueError(... one of: {possible_cols})
ColumnErrorCli == possible_cols
\* streamlit_inventory_app.load_inventory_local, the same ValueError, shown
\* by st.error(f"Error loading inventory: {str(e)}")
ColumnErrorStreamlit == possible_cols
\* ultra_safe_dashboard: st.error(... Expected one of: {possible_cols})
ColumnErrorUltraSafe == possible_cols
\* secure_dashboard: st.error(... Expected one of: {possible_cols})
ColumnErrorSecure == possible_cols
\* bulletproof_dashboard: st.error(... Expected one of: {possible_cols})
ColumnErrorBulletproof == possible_cols
\* simple_secure_dashboard: st.error("No expiration date column found")
ColumnErrorSimpleSecure == {}
\* lambda_inventory_agent: {'error': 'No expiration date column found'}
ColumnErrorLambda == {}

ColumnErrorNames(entry) ==
    CASE entry = "cli" -> ColumnErrorCli
      [] entry = "streamlit" -> ColumnErrorStreamlit
      [] entry = "ultra_safe" -> ColumnErrorUltraSafe
      [] entry = "secure" -> ColumnErrorSecure
      [] entry = "bulletproof" -> ColumnErrorBulletproof
      [] entry = "simple_secure" -> ColumnErrorSimpleSecure
      [] entry = "lambda" -> ColumnErrorLambda
      [] OTHER -> {}

\* what a run of a login-protected page or of setup_users did: page is the
\* page the run ended on ("login" or "dashboard"), op the control that was
\* used ("login", "logout", "add_user_form", "add_user",
\* "create_default_users", "delete_user", "reset_password"), username the
\* name and password the password that were entered, accepted the answer
\* of the credential check and keys_at_rerun the keys of st.session_state
\* when Logout called st.rerun()
NoAuth ==
    [page |-> "none", op |-> "none", username |-> <<>>, password |-> <<>>,
     accepted |-> FALSE, keys_at_rerun |-> {}]

\* df[col] = pd.to_datetime(df[col], errors="coerce") on the rows of a frame:
\* an assignment to the frame object itself
AssignDates(rows, col) ==
    [i \in 1..Len(rows) |-> [rows[i] EXCEPT ![col] = ToDatetime(@)]]

\* the caller's frame after inventory_agent.slice_inventory(df, date_col):
\* the three partitions are .copy() of masked selections, df is not assigned
slice_inventory_frame(df) == df

\* the caller's frame after lambda_inventory_agent.analyze_inventory(df):
\* line 93 assigns the converted column to the frame that was passed in;
\* df.dropna of line 94 rebinds the local name only, so no row is removed
analyze_inventory_frame(df, col) ==
    IF col = 0 THEN df ELSE AssignDates(df, col)

\* the value of a run: outcome "ok" is a rendered dashboard, a written
\* report or a 200 response; "error" an exception, st.error + stop, or an
\* error response.  message is the 'message' of the response body and
\* stored the object put into the bucket, both of the Lambda handler only;
\* llm is how the call of the text-generation service ended ("none" when
\* the run made none) and rec the recommendations the run generated;
\* error_names are the alias names the reported error enumerates and
\* refresh_offered says that the run rendered the "Refresh Data" button;
\* summary is the dict analyze_inventory of the Lambda returned;
\* df_before and df_after are the rows of the frame the caller handed to
\* the classifier, at the call and at its return (CLI and Lambda)
Run(entry, outcome, code, load, classified, parts, chart, asof) ==
    [entry |-> entry, outcome |-> outcome, statusCode |-> code,
     error |-> load.error, date_col |-> load.date_col, total |-> load.total,
     loaded |-> Len(load.df), warned |-> load.warned,
     warn_count |-> load.warn_count, classified |-> classified,
     expired |-> parts.expired, expiring_7d |-> parts.expiring_7d,
     fresh |-> parts.fresh, chart |-> chart, asof |-> asof,
     message |-> "", stored |-> "none", llm |-> "none", rec |-> NoRec,
     df_before |-> <<>>, df_after |-> <<>>, auth |-> NoAuth,
     error_names |-> IF load.error = "ColumnNotFound"
                     THEN ColumnErrorNames(entry) ELSE {},
     refresh_offered |-> FALSE, summary |-> <<>>]

NoRun == Run("none", "none", 0, LoadError("none", 0, 0), FALSE, NoParts, <<>>, 0)

NoCache == [present |-> FALSE, load |-> LoadError("none", 0, 0),
            parts |-> NoParts, asof |-> 0]

\* no invocation in flight and an empty bucket; no browser session of a
\* login page and no users.json
Idle ==
    /\ bucket = <<>>
    /\ invocations = <<>>
    /\ instant = 0
NoLoginPage ==
    /\ session = [app |-> "none", state |-> <<>>]
    /\ users = [exists |-> FALSE, valid |-> FALSE, entries |-> <<>>]

Init ==
    /\ csv \in InputTables
    /\ today = TodayMin
    /\ cache = NoCache
    /\ out = NoRun
    /\ Idle
    /\ NoLoginPage

(***************************************************************************)
(* Entry points                                                            *)
(***************************************************************************)
\* inventory_agent.main: build_session raises without credentials, then
\* load_inventory raises, then agent(messages) raises, or the report and
\* the three slices are written
CliMain(creds, llm_ok) ==
    LET load == load_inventory(csv)
        nothing == LoadError("none", 0, 0)
    IN /\ out' = IF ~creds
                 THEN [Run("cli", "error", 0, nothing, FALSE, NoParts, <<>>, today)
                          EXCEPT !.llm = "no_credentials"]
                 ELSE IF load.error # "none"
                 THEN Run("cli", "error", 0, load, FALSE, NoParts, <<>>, today)
                 ELSE IF ~llm_ok
                 THEN [Run("cli", "error", 0, load, FALSE, NoParts, <<>>, today)
                          EXCEPT !.llm = "failed"]
                 ELSE [Run("cli", "ok", 0, load, TRUE,
                           slice_inventory(load.df, today), <<>>, today)
                          EXCEPT !.llm = "ok",
                                 !.df_before = AssignDates(csv.rows, load.date_col),
                                 !.df_after = slice_inventory_frame(
                                     AssignDates(csv.rows, load.date_col))]
       /\ UNCHANGED <<csv, today, cache, lambdaVars, authVars>>

\* lambda_inventory_agent.lambda_handler: whatever analyze_inventory returns
\* is stored and answered with statusCode 200
LambdaHandler ==
    LET load == analyze_inventory_load(csv)
        analysis_result ==
            IF load.error # "none"
            THEN Run("lambda", "ok", 200, load, FALSE, NoParts, <<>>, today)
            ELSE [Run("lambda", "ok", 200, load, TRUE,
                      slice_inventory(load.df, today), <<>>, today)
                     EXCEPT !.rec = Rec(generate_recommendations(
                                csv, slice_inventory(load.df, today)), today)]
    IN /\ out' = [analysis_result EXCEPT
                     !.message = "Analysis completed successfully",
                     !.stored = IF load.error # "none" THEN "error" ELSE "summary",
                     !.summary = analyze_inventory(csv, today, instant),
                     !.df_before = csv.rows,
                     !.df_after = analyze_inventory_frame(csv.rows, load.date_col)]
       /\ UNCHANGED <<csv, today, cache, lambdaVars, authVars>>

\* ultra_safe_dashboard.main
UltraSafeMain(plotly) ==
    LET load == load_inventory_ultra_safe(csv)
    IN /\ out' = IF load.error # "none"
                 THEN Run("ultra_safe", "error", 0, load, FALSE, NoParts, <<>>, today)
                 ELSE Run("ultra_safe", "ok", 0, load, TRUE,
                          analyze_inventory_safe(load.df, today),
                          IF plotly THEN create_simple_chart(load.df, today) ELSE <<>>,
                          today)
       /\ UNCHANGED <<csv, today, cache, lambdaVars, authVars>>

\* secure_dashboard.show_dashboard from line 272: what the page shows
show_dashboard_secure(plotly) ==
    LET load == load_inventory_secure(csv)
    IN IF load.error # "none"
       THEN Run("secure", "error", 0, load, FALSE, NoParts, <<>>, today)
       ELSE Run("secure", "ok", 0, load, TRUE,
                analyze_inventory_secure(load.df, today),
                IF plotly THEN create_status_chart(load.df, today) ELSE <<>>,
                today)

\* secure_dashboard.show_dashboard
SecureShowDashboard(plotly) ==
    /\ out' = show_dashboard_secure(plotly)
    /\ UNCHANGED <<csv, today, cache, lambdaVars, authVars>>

\* bulletproof_dashboard.main
BulletproofMain ==
    LET load == load_inventory_safe(csv)
    IN /\ out' = IF load.error # "none"
                 THEN Run("bulletproof", "error", 0, load, FALSE, NoParts, <<>>, today)
                 ELSE Run("bulletproof", "ok", 0, load, TRUE,
                          slice_inventory_safe(load.df, today),
                          create_safe_chart(load.df, today), today)
       /\ UNCHANGED <<csv, today, cache, lambdaVars, authVars>>

\* simple_secure_dashboard.show_dashboard: the chart shows the three counts
show_dashboard_simple_secure ==
    LET load == load_inventory_data(csv)
    IN IF load.error # "none"
       THEN Run("simple_secure", "error", 0, load, FALSE, NoParts, <<>>, today)
       ELSE Run("simple_secure", "ok", 0, load, TRUE,
                slice_inventory(load.df, today), <<>>, today)

SimpleSecureShowDashboard ==
    /\ out' = show_dashboard_simple_secure
    /\ UNCHANGED <<csv, today, cache, lambdaVars, authVars>>

load_and_analyze_inventory_cached(table, now) ==
    LET load == load_inventory_local(table)
    IN [present |-> TRUE, load |-> load,
        parts |-> IF load.error # "none" THEN NoParts
                  ELSE slice_inventory_local(load.df,
                            IF cache.present THEN cache.asof ELSE now),
        asof |-> now]
\* streamlit_inventory_app.load_and_analyze_inventory: the exception of the
\* loader is caught and the failure tuple returned (and cached)
load_and_analyze_inventory(table, now) ==
    LET load == load_inventory_local(table)
    IN [present |-> TRUE, load |-> load,
        parts |-> IF load.error # "none" THEN NoParts
                  ELSE slice_inventory_local(load.df, now),
        asof |-> now]

\* the columns px.scatter is told to plot: y='item', size='quantity',
\* hover_data=['category', 'expiration_date']
ChartColumns == {ColItem, ColQuantity, ColCategory, ColExpirationDate}

\* the page of streamlit_inventory_app.main: st.error and return after a
\* failed load, above the "Refresh Data" button; else the button, the
\* metrics of the three partitions, then the chart.
\* px.scatter raises ValueError for a frame without one of its columns,
\* outside every try, which ends the script below the metrics
StreamlitRender(entry) ==
    IF entry.load.error # "none"
    THEN Run("streamlit", "error", 0, entry.load, FALSE, NoParts, <<>>, entry.asof)
    ELSE IF \E c \in ChartColumns : ~HasColumn(csv, c)
    THEN [Run("streamlit", "error", 0, entry.load, TRUE, entry.parts, <<>>, entry.asof)
             EXCEPT !.refresh_offered = TRUE]
    ELSE [Run("streamlit", "ok", 0, entry.load, TRUE, entry.parts,
              create_expiration_chart(entry.load.df, today), entry.asof)
             EXCEPT !.refresh_offered = TRUE]

\* streamlit_inventory_app.main: the cached tuple is used when there is one;
\* "Refresh Data" is reached only after a successful load, clears the cache
\* and reruns the script
StreamlitMain(refresh) ==
    LET first == IF cache.present THEN cache
                 ELSE load_and_analyze_inventory(csv, today)
        shown == IF first.load.error = "none" /\ refresh
                 THEN load_and_analyze_inventory(csv, today)
                 ELSE first
    IN /\ refresh => first.load.error = "none"
       /\ cache' = shown
       /\ out' = StreamlitRender(shown)
       /\ UNCHANGED <<csv, today, lambdaVars, authVars>>

\* ultra_safe_dashboard.main run with "Generate Action Plan" pressed; the
\* button is below st.stop() of a failed load
UltraSafeActionPlan(plotly) ==
    LET load == load_inventory_ultra_safe(csv)
        parts == analyze_inventory_safe(load.df, today)
        page == Run("ultra_safe", "ok", 0, load, TRUE, parts,
                    IF plotly THEN create_simple_chart(load.df, today) ELSE <<>>,
                    today)
    IN /\ load.error = "none"
       /\ out' = [page EXCEPT !.rec = Rec(action_plan_ultra_safe(load.df, parts, today), today)]
       /\ UNCHANGED <<csv, today, cache, lambdaVars, authVars>>

\* secure_dashboard.show_dashboard run with "Generate Action Plan" pressed
SecureActionPlan(plotly) ==
    LET load == load_inventory_secure(csv)
        parts == analyze_inventory_secure(load.df, today)
        page == Run("secure", "ok", 0, load, TRUE, parts,
                    IF plotly THEN create_status_chart(load.df, today) ELSE <<>>,
                    today)
    IN /\ load.error = "none"
       /\ out' = [page EXCEPT !.rec = Rec(action_plan_secure(load.df, parts, today), today)]
       /\ UNCHANGED <<csv, today, cache, lambdaVars, authVars>>

\* bulletproof_dashboard.main run with "Generate Recommendations" pressed
BulletproofRecommendations ==
    LET load == load_inventory_safe(csv)
        parts == slice_inventory_safe(load.df, today)
        page == Run("bulletproof", "ok", 0, load, TRUE, parts,
                    create_safe_chart(load.df, today), today)
    IN /\ load.error = "none"
       /\ \E categories \in CategoryOrders(csv, parts) :
             LET rec == recommendations_bulletproof(csv, load.df, parts, today, categories)
             IN out' = [page EXCEPT !.rec = rec,
                                   !.outcome = IF rec.failed THEN "error" ELSE "ok"]
       /\ UNCHANGED <<csv, today, cache, lambdaVars, authVars>>

\* simple_secure_dashboard.show_dashboard run with "Generate Action Plan" pressed
SimpleSecureActionPlan ==
    LET load == load_inventory_data(csv)
        parts == slice_inventory(load.df, today)
        page == Run("simple_secure", "ok", 0, load, TRUE, parts, <<>>, today)
    IN /\ load.error = "none"
       /\ out' = [page EXCEPT !.rec = Rec(action_plan_simple_secure(parts), today)]
       /\ UNCHANGED <<csv, today, cache, lambdaVars, authVars>>

\* streamlit_inventory_app.main run with "Generate AI Recommendations"
\* pressed (the button of STRANDS_AVAILABLE and BOTO3_AVAILABLE): st.error
\* and return without a session, st.error when the call raises, else the
\* text of the response; no rule-based line in any of the three
StreamlitAIRecommendations(creds, llm_ok) ==
    LET shown == IF cache.present THEN cache
                 ELSE load_and_analyze_inventory(csv, today)
        page == StreamlitRender(shown)
    IN /\ page.outcome = "ok"
       /\ cache' = shown
       /\ out' = [page EXCEPT !.llm = IF ~creds THEN "no_credentials"
                                      ELSE IF ~llm_ok THEN "failed" ELSE "ok"]
       /\ UNCHANGED <<csv, today, lambdaVars, authVars>>

\* streamlit_inventory_app.main run with "Generate Basic Recommendations"
\* pressed (the button of the else branch: a library is missing); the
\* partitions are those of the cached tuple, days_left is taken from
\* datetime.now()
StreamlitBasicRecommendations ==
    LET shown == IF cache.present THEN cache
                 ELSE load_and_analyze_inventory(csv, today)
        page == StreamlitRender(shown)
    IN /\ page.outcome = "ok"
       /\ cache' = shown
       /\ \E categories \in CategoryOrders(csv, shown.parts) :
             LET rec == recommendations_basic(csv, shown.load.df, shown.parts,
                                              today, categories)
             IN out' = [page EXCEPT !.rec = rec,
                                   !.outcome = IF rec.failed THEN "error" ELSE "ok"]
       /\ UNCHANGED <<csv, today, lambdaVars, authVars>>

\* midnight passes
AdvanceClock ==
    /\ today < TodayMax
    /\ today' = today + 1
    /\ UNCHANGED <<csv, cache, out, lambdaVars, authVars>>

Next ==
    \/ \E creds \in BOOLEAN, llm_ok \in BOOLEAN : CliMain(creds, llm_ok)
    \/ LambdaHandler
    \/ \E plotly \in BOOLEAN : UltraSafeMain(plotly)
    \/ \E plotly \in BOOLEAN : SecureShowDashboard(plotly)
    \/ BulletproofMain
    \/ SimpleSecureShowDashboard
    \/ \E refresh \in BOOLEAN : StreamlitMain(refresh)
    \/ AdvanceClock

\* the runs of the entry points without a "Generate" button pressed
Spec == Init /\ [][Next]_vars

\* the tables for the recommendations
RecInit ==
    /\ csv \in RecTables
    /\ today = TodayMin
    /\ cache = NoCache
    /\ out = NoRun
    /\ Idle
    /\ NoLoginPage

RecNext ==
    \/ Next
    \/ \E plotly \in BOOLEAN : UltraSafeActionPlan(plotly)
    \/ \E plotly \in BOOLEAN : SecureActionPlan(plotly)
    \/ BulletproofRecommendations
    \/ SimpleSecureActionPlan
    \/ \E creds \in BOOLEAN, llm_ok \in BOOLEAN : StreamlitAIRecommendations(creds, llm_ok)
    \/ StreamlitBasicRecommendations

\* every run of the entry points, with and without a button pressed
RecSpec == RecInit /\ [][RecNext]_vars

(***************************************************************************)
(* Concurrent invocations of the Lambda handler on one bucket              *)
(***************************************************************************)
Invocations == {1, 2}

\* the CSV objects uploaded to the bucket
CsvKey(n) == [name |-> "inventory", n |-> n]
CsvKeys == {CsvKey(n) : n \in Invocations}
\* event['csv_key'] of an invocation: an uploaded object or one that is
\* not in the bucket
EventKeys == CsvKeys \cup {CsvKey(0)}

BucketTables ==
    {MkRecTable(StandardHeader, <<>>)}
    \cup {MkRecTable(StandardHeader, <<r>>) : r \in RecRows}

\* ticks of the wall clock in a second, and the last tick of the model
TicksPerSecond == 2
MaxInstant == 3

\* datetime.now().strftime('%Y%m%d_%H%M%S'): the second of the instant, the
\* fraction of the second is dropped
strftime(t) == t \div TicksPerSecond

\* f"analysis_results_{...}.json"
OutputKey(t) == [name |-> "analysis_results", n |-> strftime(t)]

\* s3_client.put_object(Bucket, Key, Body): the object under Key is replaced
put_object(objects, key, body) ==
    [k \in DOMAIN objects \cup {key} |-> IF k = key THEN body ELSE objects[k]]

NotInvoked ==
    [pc |-> "idle", csv_key |-> CsvKey(0), analysis_result |-> <<>>,
     output_key |-> CsvKey(0), statusCode |-> 0, overlapped |-> {}]

InFlight == {i \in Invocations : invocations[i].pc \in {"analyzed", "keyed"}}

\* lambda_handler, lines 15-42: the object is fetched and analysed; 404
\* when get_object raises.  overlapped collects the invocations that were
\* in flight at the same time
GetAndAnalyze(i, key) ==
    /\ invocations[i].pc = "idle"
    /\ invocations' =
          [j \in Invocations |->
              IF j = i
              THEN IF key \notin DOMAIN bucket
                   THEN [invocations[i] EXCEPT !.pc = "done", !.csv_key = key,
                                               !.statusCode = 404]
                   ELSE [invocations[i] EXCEPT
                            !.pc = "analyzed", !.csv_key = key,
                            !.analysis_result = analyze_inventory(bucket[key], today, instant),
                            !.overlapped = InFlight]
              ELSE IF j \in InFlight /\ key \in DOMAIN bucket
                   THEN [invocations[j] EXCEPT !.overlapped = @ \cup {i}]
                   ELSE invocations[j]]
    /\ UNCHANGED <<csv, today, cache, out, bucket, instant, authVars>>

\* line 45: the output key is made from the clock
FormatOutputKey(i) ==
    /\ invocations[i].pc = "analyzed"
    /\ invocations' = [invocations EXCEPT ![i].pc = "keyed",
                                          ![i].output_key = OutputKey(instant)]
    /\ UNCHANGED <<csv, today, cache, out, bucket, instant, authVars>>

\* lines 47-67: the result is put under the output key and answered with 200
PutAndRespond(i) ==
    /\ invocations[i].pc = "keyed"
    /\ bucket' = put_object(bucket, invocations[i].output_key,
                            invocations[i].analysis_result)
    /\ invocations' = [invocations EXCEPT ![i].pc = "done", ![i].statusCode = 200]
    /\ UNCHANGED <<csv, today, cache, out, instant, authVars>>

\* the wall clock advances by one tick
Tick ==
    /\ instant < MaxInstant
    /\ instant' = instant + 1
    /\ UNCHANGED <<csv, today, cache, out, bucket, invocations, authVars>>

\* two different tables uploaded as two objects of the bucket
LambdaInit ==
    /\ csv = MkRecTable(StandardHeader, <<>>)
    /\ today = TodayMin
    /\ cache = NoCache
    /\ out = NoRun
    /\ \E t1 \in BucketTables, t2 \in BucketTables :
          /\ t1 # t2
          /\ bucket = [k \in CsvKeys |-> IF k = CsvKey(1) THEN t1 ELSE t2]
    /\ invocations = [i \in Invocations |-> NotInvoked]
    /\ instant = 0
    /\ NoLoginPage

LambdaNext ==
    \/ \E i \in Invocations, key \in EventKeys : GetAndAnalyze(i, key)
    \/ \E i \in Invocations : FormatOutputKey(i)
    \/ \E i \in Invocations : PutAndRespond(i)
    \/ Tick

LambdaSpec == LambdaInit /\ [][LambdaNext]_vars

(***************************************************************************)
(* Login, session state and the user store                                 *)
(***************************************************************************)
NameAdmin == <<"a", "d", "m", "i", "n">>
NameManager == <<"m", "a", "n", "a", "g", "e", "r">>
NameStaff == <<"s", "t", "a", "f", "f">>
NameChef == <<"c", "h", "e", "f">>
NamePadded == <<" ", "a", "d", "m", "i", "n">>

PwAdmin == <<"a", "d", "m", "i", "n", "1", "2", "3">>
PwManager == <<"m", "a", "n", "a", "g", "e", "r", "1", "2", "3">>
PwStaff == <<"s", "t", "a", "f", "f", "1", "2", "3">>
PwSecret == <<"s", "e", "c", "r", "e", "t">>
PwShort == <<"a", "b", "c">>

\* what is typed into the forms and prompts
LoginNames == {<<>>, NameAdmin, NameChef}
LoginPasswords == {<<>>, PwAdmin, PwSecret}
AddNames == {<<>>, NameAdmin, NameChef, NamePadded}
AddPasswords == {<<>>, PwAdmin, PwSecret, PwShort}

\* secure_dashboard.DEFAULT_USERS
DEFAULT_USERS ==
    [u \in {NameAdmin, NameManager, NameStaff} |->
        IF u = NameAdmin THEN PwAdmin
        ELSE IF u = NameManager THEN PwManager ELSE PwStaff]

\* setup_users.create_default_users: default_users
default_users ==
    [u \in {NameAdmin, NameManager, NameStaff} |->
        IF u = NameAdmin THEN PwAdmin
        ELSE IF u = NameManager THEN PwManager ELSE PwStaff]

\* simple_secure_dashboard.VALID_USERS: the dict is empty
VALID_USERS == <<>>

\* hashlib.sha256(password.encode()).hexdigest(): a digest that is not the
\* password and differs for different passwords
hash_password(password) == [sha256 |-> password]

\* dict.update: the entries of over replace those of base
Overlay(base, over) ==
    [u \in DOMAIN base \cup DOMAIN over |->
        IF u \in DOMAIN over THEN over[u] ELSE base[u]]

\* a dict without the key u
Without(entries, u) ==
    IF DOMAIN entries \ {u} = {} THEN <<>>
    ELSE [n \in DOMAIN entries \ {u} |-> entries[n]]

\* users.json after json.dump(entries, f)
UsersFile(entries) == [exists |-> TRUE, valid |-> TRUE, entries |-> entries]

\* {username: hash_password(password) for username, password in DEFAULT_USERS.items()}
HashedDefaults == [u \in DOMAIN DEFAULT_USERS |-> hash_password(DEFAULT_USERS[u])]

load_users_defaults_win(file) ==
    IF file.exists /\ file.valid
    THEN [users |-> Overlay(file.entries, HashedDefaults), file |-> file]
    ELSE [users |-> HashedDefaults, file |-> UsersFile(HashedDefaults)]
\* secure_dashboard.load_users: the defaults updated with the entries of a
\* readable users.json; without one (or when json.load raises) the hashed
\* defaults, which are also written to users.json
load_users(file) ==
    IF file.exists /\ file.valid
    THEN [users |-> Overlay(HashedDefaults, file.entries), file |-> file]
    ELSE [users |-> HashedDefaults, file |-> UsersFile(HashedDefaults)]

\* secure_dashboard.verify_credentials: result is the value returned, file
\* users.json after the call
verify_credentials(file, username, password) ==
    LET loaded == load_users(file)
    IN [result |-> /\ username \in DOMAIN loaded.users
                   /\ loaded.users[username] = hash_password(password),
        file |-> loaded.file]

\* simple_secure_dashboard.verify_login
verify_login(username, password) ==
    username \in DOMAIN VALID_USERS /\ VALID_USERS[username] = password

\* setup_users.load_users: {} without a readable users.json
setup_load_users(file) ==
    IF file.exists /\ file.valid THEN file.entries ELSE <<>>

\* st.session_state: keys is the set of keys it holds, the three fields
\* are their values (the value of a key it does not hold is not read)
FreshSession ==
    [keys |-> {}, logged_in |-> FALSE, username |-> <<>>, login_time |-> 0]

\* main: if 'logged_in' not in st.session_state: st.session_state.logged_in = False
InitSessionState(st) ==
    IF "logged_in" \in st.keys THEN st
    ELSE [st EXCEPT !.keys = @ \cup {"logged_in"}, !.logged_in = FALSE]

\* show_login_page: the three assignments of an accepted login
LoggedInSession(st, username, now) ==
    [keys |-> st.keys \cup {"logged_in", "username", "login_time"},
     logged_in |-> TRUE, username |-> username, login_time |-> now]

ClearAllButLogin(st) ==
    [st EXCEPT !.keys = @ \ {"username", "login_time"},
               !.username = <<>>, !.login_time = 0]
\* show_dashboard, Logout: for key in list(st.session_state.keys()):
\*     del st.session_state[key]
ClearSession(st) ==
    [keys |-> {k \in st.keys : FALSE}, logged_in |-> FALSE,
     username |-> <<>>, login_time |-> 0]

Apps == {"secure", "simple_secure"}

\* the page of show_login_page: no inventory is read
LoginPage(app) ==
    [Run(app, "ok", 0, LoadError("none", 0, 0), FALSE, NoParts, <<>>, today)
        EXCEPT !.auth = [NoAuth EXCEPT !.page = "login"]]

\* the page of show_dashboard
DashboardPage(app, plotly) ==
    [(IF app = "secure" THEN show_dashboard_secure(plotly)
      ELSE show_dashboard_simple_secure)
        EXCEPT !.auth = [NoAuth EXCEPT !.page = "dashboard"]]

PageUnguarded(app, st, plotly) == DashboardPage(app, plotly)
\* main, lines 466-470: the page by the login status
Page(app, st, plotly) ==
    IF st.logged_in THEN DashboardPage(app, plotly) ELSE LoginPage(app)

\* secure_dashboard.show_dashboard, lines 309-391: the user management tab
\* of admin, below st.stop() of a failed load, calls load_users()
UserManagementShown(app, st) ==
    /\ app = "secure"
    /\ st.logged_in
    /\ st.username = NameAdmin
    /\ load_inventory_secure(csv).error = "none"

UsersAfterPage(app, st, file) ==
    IF UserManagementShown(app, st) THEN load_users(file).file ELSE file

\* main of secure_dashboard and of simple_secure_dashboard: a run of the
\* script with no control used
Main(app, plotly) ==
    LET st == InitSessionState(session.state)
    IN /\ session.app = app
       /\ session' = [session EXCEPT !.state = st]
       /\ out' = Page(app, st, plotly)
       /\ users' = UsersAfterPage(app, st, users)
       /\ UNCHANGED <<csv, today, cache, lambdaVars>>

\* show_login_page, lines 95-106: the login form is submitted; an accepted
\* login sets the session and st.rerun() runs main again
LoginSubmit(app, username, password, plotly) ==
    LET st == InitSessionState(session.state)
        filled == username # <<>> /\ password # <<>>
        checked == IF app = "secure"
                   THEN verify_credentials(users, username, password)
                   ELSE [result |-> verify_login(username, password), file |-> users]
        accepted == filled /\ checked.result
        after == IF accepted THEN LoggedInSession(st, username, today) ELSE st
    IN /\ session.app = app
       /\ ~st.logged_in
       /\ session' = [session EXCEPT !.state = after]
       /\ out' = [Page(app, after, plotly) EXCEPT
                     !.auth.op = "login",
                     !.auth.username = username,
                     !.auth.password = password,
                     !.auth.accepted = accepted]
       /\ users' = UsersAfterPage(app, after, IF filled THEN checked.file ELSE users)
       /\ UNCHANGED <<csv, today, cache, lambdaVars>>

\* show_dashboard, Logout: every key is deleted and st.rerun() runs main
\* again, before the inventory is read
Logout(app) ==
    LET cleared == ClearSession(session.state)
        after == InitSessionState(cleared)
    IN /\ session.app = app
       /\ "logged_in" \in session.state.keys
       /\ session.state.logged_in
       /\ session' = [session EXCEPT !.state = after]
       /\ out' = [Page(app, after, FALSE) EXCEPT
                     !.auth.op = "logout",
                     !.auth.keys_at_rerun = cleared.keys]
       /\ users' = UsersAfterPage(app, after, users)
       /\ UNCHANGED <<csv, today, cache, lambdaVars>>

\* secure_dashboard.show_dashboard, lines 396-411: the "Add User" form of
\* the user management tab is submitted
AddUserForm(new_username, new_password, plotly) ==
    LET st == session.state
        loaded == load_users(users)
    IN /\ session.app = "secure"
       /\ "logged_in" \in st.keys
       /\ UserManagementShown("secure", st)
       /\ users' = IF new_username # <<>> /\ new_password # <<>>
                   THEN UsersFile(Overlay(loaded.users,
                            [u \in {new_username} |-> hash_password(new_password)]))
                   ELSE loaded.file
       /\ out' = [DashboardPage("secure", plotly) EXCEPT
                     !.auth.op = "add_user_form",
                     !.auth.username = new_username,
                     !.auth.password = new_password]
       /\ UNCHANGED <<csv, today, cache, lambdaVars, session>>

\* what a menu entry of setup_users printed
SetupRun(op, username) ==
    [Run("setup_users", "ok", 0, LoadError("none", 0, 0), FALSE, NoParts, <<>>, today)
        EXCEPT !.auth.op = op, !.auth.username = username]

\* setup_users.add_user
add_user(file, typed, password, confirm_password) ==
    LET entries == setup_load_users(file)
        username == Strip(typed)
    IN IF username = <<>> THEN file
       ELSE IF username \in DOMAIN entries THEN file
       ELSE IF password # confirm_password THEN file
       ELSE IF Len(password) < 6 THEN file
       ELSE UsersFile(Overlay(entries, [u \in {username} |-> hash_password(password)]))

SetupAddUser(typed, password, confirm_password) ==
    /\ users' = add_user(users, typed, password, confirm_password)
    /\ out' = SetupRun("add_user", Strip(typed))
    /\ UNCHANGED <<csv, today, cache, lambdaVars, session>>

\* setup_users.create_default_users
create_default_users(file) ==
    LET entries == setup_load_users(file)
        missing == {u \in DOMAIN default_users : u \notin DOMAIN entries}
    IN IF missing = {} THEN file
       ELSE UsersFile(Overlay(entries,
                [u \in missing |-> hash_password(default_users[u])]))

SetupCreateDefaultUsers ==
    /\ users' = create_default_users(users)
    /\ out' = SetupRun("create_default_users", <<>>)
    /\ UNCHANGED <<csv, today, cache, lambdaVars, session>>

\* setup_users.delete_user
delete_user(file, typed, confirmed) ==
    LET entries == setup_load_users(file)
        username == Strip(typed)
    IN IF DOMAIN entries = {} THEN file
       ELSE IF username \notin DOMAIN entries THEN file
       ELSE IF ~confirmed THEN file
       ELSE UsersFile(Without(entries, username))

SetupDeleteUser(typed, confirmed) ==
    /\ users' = delete_user(users, typed, confirmed)
    /\ out' = SetupRun("delete_user", Strip(typed))
    /\ UNCHANGED <<csv, today, cache, lambdaVars, session>>

\* setup_users.reset_password
reset_password(file, typed, new_password, confirm_password) ==
    LET entries == setup_load_users(file)
        username == Strip(typed)
    IN IF DOMAIN entries = {} THEN file
       ELSE IF username \notin DOMAIN entries THEN file
       ELSE IF new_password # confirm_password THEN file
       ELSE IF Len(new_password) < 6 THEN file
       ELSE UsersFile([entries EXCEPT ![username] = hash_password(new_password)])

SetupResetPassword(typed, new_password, confirm_password) ==
    /\ users' = reset_password(users, typed, new_password, confirm_password)
    /\ out' = SetupRun("reset_password", Strip(typed))
    /\ UNCHANGED <<csv, today, cache, lambdaVars, session>>

\* an inventory that loads and one that does not
AuthTables ==
    {MkRecTable(StandardHeader, <<>>),
     MkRecTable(StandardHeader, <<RecRow(TodayMin - 1, 1), RecRow(TodayMin, 2)>>)}

\* users.json before the first run: missing, unreadable, without entries,
\* with an entry for a default user and with an entry for another user
UsersFiles ==
    {[exists |-> FALSE, valid |-> FALSE, entries |-> <<>>],
     [exists |-> TRUE, valid |-> FALSE, entries |-> <<>>],
     UsersFile(<<>>),
     UsersFile([u \in {NameAdmin} |-> hash_password(PwSecret)]),
     UsersFile([u \in {NameChef} |-> hash_password(PwSecret)])}

\* a browser session that opens one of the two login-protected pages
AuthInit ==
    /\ csv \in AuthTables
    /\ today = TodayMin
    /\ cache = NoCache
    /\ out = NoRun
    /\ Idle
    /\ session \in {[app |-> a, state |-> FreshSession] : a \in Apps}
    /\ users \in UsersFiles

AuthNext ==
    \/ \E app \in Apps, plotly \in BOOLEAN : Main(app, plotly)
    \/ \E app \in Apps, u \in LoginNames, p \in LoginPasswords, plotly \in BOOLEAN :
          LoginSubmit(app, u, p, plotly)
    \/ \E app \in Apps : Logout(app)
    \/ \E u \in AddNames, p \in AddPasswords, plotly \in BOOLEAN : AddUserForm(u, p, plotly)
    \/ \E u \in AddNames, p \in AddPasswords, c \in AddPasswords : SetupAddUser(u, p, c)
    \/ SetupCreateDefaultUsers
    \/ \E u \in AddNames, confirmed \in BOOLEAN : SetupDeleteUser(u, confirmed)
    \/ \E u \in AddNames, p \in AddPasswords, c \in AddPasswords : SetupResetPassword(u, p, c)

AuthSpec == AuthInit /\ [][AuthNext]_vars

(***************************************************************************)
(* Vocabulary of the properties                                            *)
(***************************************************************************)
SeqSet(q) == {q[k] : k \in DOMAIN q}
NoDuplicates(q) == \A k, m \in DOMAIN q : k # m => q[k] # q[m]

RowCount == Len(csv.rows)
Expired == SeqSet(out.expired)
ExpiringSoon == SeqSet(out.expiring_7d)
Fresh == SeqSet(out.fresh)
Charted == {out.chart[k].idx : k \in DOMAIN out.chart}

\* the raw cell of row i under the column the run resolved
RawCell(i) == csv.rows[i][out.date_col]
\* rows of the file whose cell under the resolved column is a date
ValidRows ==
    {i \in 1..RowCount : out.date_col # 0 /\ RawCell(i).kind = "datetime"}
\* rows of the file whose cell under the resolved column failed to parse
FailedRows ==
    {i \in 1..RowCount : out.date_col # 0 /\ RawCell(i).kind # "datetime"}

\* the resolution rule of the specification: lowercased, trimmed, in the alias set
AliasMatch(c) == Strip(Lower(c)) \in possible_cols
AliasColumn == [h \in AllHeaders |-> FirstMatch([j \in 1..Len(h) |-> AliasMatch(h[j])])]

HasRun == out.entry # "none"

(***************************************************************************)
(* Properties                                                              *)
(***************************************************************************)
\* C1: whenever a classification is produced, Expired, ExpiringSoon and
\* Fresh are pairwise disjoint, hold no row twice, and their union is
\* exactly the set of rows of the table that have a valid date.
C1_ExactPartition ==
    out.classified =>
        /\ Expired \cap ExpiringSoon = {}
        /\ Expired \cap Fresh = {}
        /\ ExpiringSoon \cap Fresh = {}
        /\ NoDuplicates(out.expired)
        /\ NoDuplicates(out.expiring_7d)
        /\ NoDuplicates(out.fresh)
        /\ Expired \cup ExpiringSoon \cup Fresh = ValidRows

\* C1 witness: a classification that put one row into ExpiringSoon and the
\* other into Fresh.
C1_Witness ==
    /\ out.classified
    /\ Cardinality(ValidRows) = 2
    /\ Cardinality(ExpiringSoon) = 1
    /\ Cardinality(Fresh) = 1

\* C1 witness with a row in Expired and an unparseable row left out.
C1_WitnessExpired ==
    /\ out.classified
    /\ Cardinality(Expired) = 1
    /\ FailedRows # {}

\* C2: for a row holding a plain date d (no time of day), d < today gives
\* Expired, today <= d <= today + 7 gives ExpiringSoon (both ends
\* included) and d > today + 7 gives Fresh, today being the day of the
\* classification.
C2_InclusiveWindow ==
    out.classified =>
        \A i \in ValidRows :
            RawCell(i).tod = 0 =>
                LET d == RawCell(i).day
                IN /\ d < out.asof => i \in Expired
                   /\ (out.asof <= d /\ d <= out.asof + 7) => i \in ExpiringSoon
                   /\ d > out.asof + 7 => i \in Fresh

\* C2 witness: rows dated exactly today + 7 and today + 8 classified as
\* ExpiringSoon and Fresh.
C2_Witness ==
    /\ out.classified
    /\ \E i \in ExpiringSoon : RawCell(i) = DateCell(out.asof + 7, 0)
    /\ \E i \in Fresh : RawCell(i) = DateCell(out.asof + 8, 0)

\* C2 witness of the lower end: rows dated today - 1 and exactly today
\* classified as Expired and ExpiringSoon.
C2_WitnessToday ==
    /\ out.classified
    /\ \E i \in Expired : RawCell(i) = DateCell(out.asof - 1, 0)
    /\ \E i \in ExpiringSoon : RawCell(i) = DateCell(out.asof, 0)

\* C3: whenever a classification is produced, the sizes of the three
\* partitions plus the number of rows whose date failed to parse add up to
\* the number of rows read from the CSV; in the dashboards that count the
\* removed rows (ultra_safe, secure) the count they state is that number.
C3_RowConservation ==
    out.classified =>
        /\ Len(out.expired) + Len(out.expiring_7d) + Len(out.fresh)
              + Cardinality(FailedRows) = RowCount
        /\ out.total = RowCount
        /\ out.entry \in {"ultra_safe", "secure"} =>
              /\ out.warn_count = Cardinality(FailedRows)
              /\ out.loaded + out.warn_count = out.total

\* C3 witness: ultra_safe classified a table of two rows, one of them
\* unparseable and counted in the warning, the other one expired.
C3_Witness ==
    /\ out.entry = "ultra_safe"
    /\ out.classified
    /\ RowCount = 2
    /\ out.warn_count = 1
    /\ Len(out.expired) = 1

\* C4: a row whose expiration cell is unparseable or empty is in none of
\* Expired, ExpiringSoon, Fresh and gets no chart status label, in every
\* entry point.
C4_UnparseableExcluded ==
    \A i \in 1..RowCount :
        (HasRun /\ (out.date_col = 0 \/ i \in FailedRows)) =>
            /\ i \notin Expired \cup ExpiringSoon \cup Fresh
            /\ i \notin Charted

\* C4 witness: a table with an unparseable row was classified and charted.
C4_Witness ==
    /\ out.classified
    /\ FailedRows # {}
    /\ out.chart # <<>>
    /\ Expired \cup ExpiringSoon \cup Fresh # {}

\* C4 witness for the chart of streamlit_inventory_app: its loader refused
\* the table with an unparseable row, so calc_days labelled nothing.
C4_WitnessStreamlit ==
    /\ out.entry = "streamlit"
    /\ FailedRows # {}
    /\ out.outcome = "error"

\* C5: the partition of a row depends only on the calendar day d of its
\* parsed value, whatever its time of day: d < today gives Expired,
\* today <= d <= today + 7 gives ExpiringSoon, d > today + 7 gives Fresh.
C5_CalendarDays ==
    out.classified =>
        \A i \in ValidRows :
            LET d == RawCell(i).day
            IN /\ d < out.asof => i \in Expired
               /\ (out.asof <= d /\ d <= out.asof + 7) => i \in ExpiringSoon
               /\ d > out.asof + 7 => i \in Fresh

\* C6: when some but not all rows of a table with an expiration column
\* have an unparseable date, the run succeeds, classifies the remaining
\* rows and reports the number of excluded rows in a warning.
C6_PartialFailureWarns ==
    (HasRun /\ out.date_col # 0
        /\ FailedRows # {} /\ Cardinality(FailedRows) < RowCount) =>
            /\ out.outcome = "ok"
            /\ out.classified
            /\ out.warned
            /\ out.warn_count = Cardinality(FailedRows)

\* C7: when every row of a non-empty table with an expiration column has
\* an unparseable date, the run ends in a terminal error and produces no
\* classification.
C7_NoValidDatesTerminal ==
    (HasRun /\ out.date_col # 0
        /\ RowCount > 0 /\ Cardinality(FailedRows) = RowCount) =>
            /\ out.outcome = "error"
            /\ out.error \in {"NoValidDates", "DateParseFailure"}
            /\ ~out.classified

\* C8: when no column of a non-empty table matches the alias set, the run
\* ends with ColumnNotFound, no column is used in its place and nothing is
\* classified.
C8_ColumnNotFound ==
    (HasRun /\ RowCount > 0 /\ AliasColumn[csv.header] = 0) =>
        /\ out.error = "ColumnNotFound"
        /\ out.date_col = 0
        /\ ~out.classified

\* C9: for a non-empty table with a column matching the alias set after
\* lowercasing and trimming, the column the run resolves is the leftmost
\* such column.
C9_LeftmostTrimmedAlias ==
    (HasRun /\ RowCount > 0 /\ AliasColumn[csv.header] # 0) =>
        out.date_col = AliasColumn[csv.header]

\* C10: a table with zero data rows ends in a terminal EmptySource error
\* in every entry point; nothing is classified.
C10_EmptySourceTerminal ==
    (HasRun /\ RowCount = 0) =>
        /\ out.outcome = "error"
        /\ out.error = "EmptySource"
        /\ ~out.classified

\* C11: when analyze_inventory ends in a terminal condition (no expiration
\* column), lambda_handler does not answer statusCode 200 with the message
\* 'Analysis completed successfully' and does not store the error object
\* as an analysis result.
C11_ErrorNotReportedAsSuccess ==
    (out.entry = "lambda" /\ out.error # "none") =>
        /\ ~(out.statusCode = 200
              /\ out.message = "Analysis completed successfully")
        /\ out.stored # "error"

\* C12: the classification and the rule-based recommendation are produced
\* whether or not the text-generation service is available: a run whose
\* credentials are missing or whose model call fails, on a table with rows
\* and an expiration column, still yields the three partitions and the
\* rule-based recommendation text.
C12_ClassificationWithoutLLM ==
    (out.llm \in {"no_credentials", "failed"}
        /\ RowCount > 0 /\ AliasColumn[csv.header] # 0) =>
        /\ out.classified
        /\ out.rec.generated
        /\ ~out.rec.failed
        /\ out.rec.lines # <<>>

\* the lines of the recommendations of the last run
RecLines == {out.rec.lines[k] : k \in DOMAIN out.rec.lines}
\* the lines that state the days left of an ExpiringSoon row
DaysLeftLines == {l \in RecLines : l.section = "Priority" /\ l.kind = "item"}

\* C13: every Priority Actions line emitted for an ExpiringSoon row carries
\* days_left = date - today, today being the day of the generation, with
\* 0 <= days_left <= 7; this includes recommendations generated from a
\* classification cached before the calendar date advanced.
C13_DaysLeftInWindow ==
    \A l \in DaysLeftLines :
        /\ l.n = RawCell(l.idx).day - out.rec.now
        /\ 0 <= l.n
        /\ l.n <= 7

\* the line at position k is about a row of the table, in the given section
IsRowLine(k, section) ==
    /\ out.rec.lines[k].section = section
    /\ out.rec.lines[k].kind \in {"item", "plain"}

\* C14: the Immediate Actions lines and the Priority Actions lines are
\* emitted in ascending order of the expiration date, whatever the order of
\* the rows in the table: of two emitted rows the earlier line has the
\* earlier or the same date.
C14_OldestFirst ==
    \A section \in {"Immediate", "Priority"} :
        \A k, m \in DOMAIN out.rec.lines :
            (k < m /\ IsRowLine(k, section) /\ IsRowLine(m, section)) =>
                RawCell(out.rec.lines[k].idx).day <= RawCell(out.rec.lines[m].idx).day

\* the partition a section of the action plan is about
PartitionOf(section) ==
    IF section = "Immediate" THEN out.expired ELSE out.expiring_7d

\* the positions of the lines of a kind in a section
LinePositions(section, kind) ==
    {k \in DOMAIN out.rec.lines :
        out.rec.lines[k].section = section /\ out.rec.lines[k].kind = kind}

\* the row limit the action plan of the entry point is said to have
StatedLimit == IF out.entry = "ultra_safe" THEN 10 ELSE 5

C15_WitnessSecure ==
    /\ out.entry = "secure"
    /\ out.rec.generated
    /\ Len(out.expired) = 6
    /\ Len(out.expiring_7d) = 5
    /\ \E k \in LinePositions("Immediate", "more") : out.rec.lines[k].n = 1
    /\ Cardinality(LinePositions("Priority", "item")) = 5
    /\ LinePositions("Priority", "more") = {}

\* the rows of Expired and ExpiringSoon of the last run that have category c
UrgentRowsOf(c) ==
    {i \in Expired \cup ExpiringSoon : CategoryOf(csv, i) = c}

\* the position of a category name in the alphabetical order
NameRank(c) == CHOOSE i \in DOMAIN Categories : Categories[i] = c

\* C16: the Category Analysis counts the rows of every distinct category
\* over the union of Expired and ExpiringSoon and emits the categories by
\* descending count, equal counts by ascending category name, whatever the
\* order in which the categories first appear in the table.
C16_CategoryOrder ==
    LET lines == out.rec.lines
        counted == LinePositions("Category", "count")
    IN counted # {} =>
          /\ \A i \in Expired \cup ExpiringSoon :
                \E k \in counted : lines[k].cat = CategoryOf(csv, i)
          /\ \A k \in counted : lines[k].n = Cardinality(UrgentRowsOf(lines[k].cat))
          /\ \A k, m \in counted :
                k < m =>
                    \/ lines[k].n > lines[m].n
                    \/ /\ lines[k].n = lines[m].n
                       /\ NameRank(lines[k].cat) < NameRank(lines[m].cat)

\* the recommendations of the last run have the heading of the section
HasSection(section) == LinePositions(section, "header") # {}

\* C17: for a table without an 'item' column or without a 'category'
\* column, generating the recommendations of a dashboard completes without
\* error, leaves the Category Analysis section out when 'category' is
\* absent and still emits the other sections.
C17_OptionalColumns ==
    (out.rec.generated /\ out.entry # "lambda"
        /\ (~HasColumn(csv, ColItem) \/ ~HasColumn(csv, ColCategory))) =>
            /\ ~out.rec.failed
            /\ ~HasColumn(csv, ColCategory) => ~HasSection("Category")
            /\ HasSection("Immediate") <=> out.expired # <<>>
            /\ HasSection("Priority") <=> out.expiring_7d # <<>>
            /\ HasSection("General")

\* the place of a section in the order of the output
SectionRank(section) ==
    CASE section = "Immediate" -> 1
      [] section = "Priority" -> 2
      [] section = "Category" -> 3
      [] section = "General" -> 4

\* C18: the sections of the recommendations appear in the order Immediate
\* Actions, Priority Actions, Category Analysis, General Best Practices;
\* the section of an empty partition is left out; the General Best
\* Practices section is emitted last for every input, also when all
\* partitions are empty.
C18_SectionOrder ==
    LET lines == out.rec.lines
    IN out.rec.generated =>
          /\ \A k, m \in DOMAIN lines :
                k < m => SectionRank(lines[k].section) <= SectionRank(lines[m].section)
          /\ out.expired = <<>> => \A k \in DOMAIN lines : lines[k].section # "Immediate"
          /\ out.expiring_7d = <<>> => \A k \in DOMAIN lines : lines[k].section # "Priority"
          /\ lines # <<>>
          /\ lines[Len(lines)].section = "General"

\* horizons a caller may ask for: the default and the one of the claim
CallerHorizons == {3, 7}

\* C19: the expiring-soon horizon is the caller's: for every horizon h a
\* caller asks for (default 7), a row with a plain date d is Expired for
\* d < today, ExpiringSoon for today <= d <= today + h and Fresh for
\* d > today + h, so that with h = 3 a row dated beyond today + 3 is Fresh.
C19_CallerHorizon ==
    out.classified =>
        \A h \in CallerHorizons :
            \A i \in ValidRows :
                RawCell(i).tod = 0 =>
                    LET d == RawCell(i).day
                    IN /\ d < out.asof => i \in Expired
                       /\ (out.asof <= d /\ d <= out.asof + h) => i \in ExpiringSoon
                       /\ d > out.asof + h => i \in Fresh

\* the three partitions of a run
Partitions(run) ==
    [expired |-> run.expired, expiring_7d |-> run.expiring_7d, fresh |-> run.fresh]

C21_InputUnchanged ==
    (out.entry \in {"cli", "lambda"} /\ out.df_before # <<>>)
        => out.df_after = out.df_before

\* an invocation that answered 200 for a CSV object no other invocation
\* was given
Completed(i) ==
    /\ invocations[i].pc = "done"
    /\ invocations[i].statusCode = 200
    /\ \A j \in Invocations \ {i} : invocations[j].csv_key # invocations[i].csv_key

\* C22: concurrent invocations over different tables do not interfere: when
\* two lambda_handler invocations for different CSV objects of one bucket
\* run concurrently (also within one wall-clock second), each analysis
\* result stays stored under the output key of its invocation and is not
\* overwritten by the other.
C22_NoInterference ==
    \A i \in Invocations :
        (Completed(i) /\ invocations[i].overlapped # {})
            => bucket[invocations[i].output_key] = invocations[i].analysis_result

\* the session holds logged_in = True
LoggedIn(st) == "logged_in" \in st.keys /\ st.logged_in

\* the run read inventory.csv (and classified it or reported why not)
InventoryRead(run) == run.classified \/ run.error # "none"

\* the credential check of the page accepts the pair
Accepts(app, file, username, password) ==
    IF app = "secure" THEN verify_credentials(file, username, password).result
    ELSE verify_login(username, password)

\* C23: in the login-protected dashboards the inventory is loaded and
\* classified only in a run whose session has logged_in = true, and
\* logged_in becomes true only by a submission of the login form with a
\* non-empty username and password that the credential check accepts; so
\* no sequence of failed or empty submissions reaches the dashboard.
C23_LoginRequired ==
    [][/\ (out'.entry \in Apps /\ InventoryRead(out')) => LoggedIn(session'.state)
       /\ (LoggedIn(session'.state) /\ ~LoggedIn(session.state)) =>
              /\ out'.auth.op = "login"
              /\ out'.auth.username # <<>>
              /\ out'.auth.password # <<>>
              /\ Accepts(session.app, users, out'.auth.username, out'.auth.password)
       /\ (out'.entry \in Apps /\ out'.auth.op = "login" /\ ~out'.auth.accepted) =>
              /\ ~LoggedIn(session'.state)
              /\ out'.auth.page = "login"
              /\ ~InventoryRead(out')]_vars

\* C23 witness: after a rejected submission, a submission of admin with
\* the password of the default user was accepted and the dashboard shows
\* the classified inventory.
C23_Witness ==
    /\ session.app = "secure"
    /\ LoggedIn(session.state)
    /\ out.auth.op = "login"
    /\ out.auth.accepted
    /\ out.auth.page = "dashboard"
    /\ out.classified
    /\ out.expired # <<>>

\* C24: whenever column resolution fails, the error reported to the caller
\* enumerates the accepted alias names expiration_date, expiry_date,
\* expires and best_before, in every entry point.
C24_ErrorNamesAliases ==
    out.error = "ColumnNotFound" => out.error_names = possible_cols

\* the entries of users.json that can be read
FileEntries == IF users.exists /\ users.valid THEN users.entries ELSE <<>>

\* the merged user map: the built-in default users, and the entries of
\* users.json, the file's entry winning for a name in both
MergedNames == DOMAIN DEFAULT_USERS \cup DOMAIN FileEntries
MergedEntry(u) ==
    IF u \in DOMAIN FileEntries THEN FileEntries[u]
    ELSE hash_password(DEFAULT_USERS[u])

\* the names and passwords a caller may pass
CredentialNames == LoginNames \cup AddNames \cup DOMAIN DEFAULT_USERS
CredentialPasswords ==
    LoginPasswords \cup AddPasswords \cup {DEFAULT_USERS[u] : u \in DOMAIN DEFAULT_USERS}

\* C25: in secure_dashboard verify_credentials(u, p) is true exactly when u
\* is a key of the merged user map and SHA-256(p) equals the merged entry;
\* a default user whose file entry holds another hash is rejected with the
\* default password, a name in neither source is rejected with every
\* password, and a submitted login is answered by that rule.
C25_VerifyCredentials ==
    /\ \A u \in CredentialNames, p \in CredentialPasswords :
          verify_credentials(users, u, p).result
              <=> (u \in MergedNames /\ MergedEntry(u) = hash_password(p))
    /\ \A u \in DOMAIN DEFAULT_USERS :
          (u \in DOMAIN FileEntries /\ FileEntries[u] # hash_password(DEFAULT_USERS[u]))
              => ~verify_credentials(users, u, DEFAULT_USERS[u]).result
    /\ \A u \in CredentialNames \ MergedNames, p \in CredentialPasswords :
          ~verify_credentials(users, u, p).result
    /\ (out.entry = "secure" /\ out.auth.op = "login"
            /\ out.auth.username # <<>> /\ out.auth.password # <<>>)
          => (out.auth.accepted
                <=> (/\ out.auth.username \in MergedNames
                     /\ MergedEntry(out.auth.username) = hash_password(out.auth.password)))

\* C25 witness: users.json holds another hash for the default user admin,
\* and a login of admin with the default password was rejected.
C25_Witness ==
    /\ NameAdmin \in DOMAIN FileEntries
    /\ FileEntries[NameAdmin] = hash_password(PwSecret)
    /\ out.entry = "secure"
    /\ out.auth.op = "login"
    /\ out.auth.username = NameAdmin
    /\ out.auth.password = DEFAULT_USERS[NameAdmin]
    /\ ~out.auth.accepted
    /\ out.auth.page = "login"

\* C25 witness: the overlaid password of admin is accepted.
C25_WitnessAccepted ==
    /\ NameAdmin \in DOMAIN FileEntries
    /\ FileEntries[NameAdmin] = hash_password(PwSecret)
    /\ out.entry = "secure"
    /\ out.auth.op = "login"
    /\ out.auth.username = NameAdmin
    /\ out.auth.password = PwSecret
    /\ out.auth.accepted

\* the operations that add users
AddOperations == {"add_user", "create_default_users", "add_user_form"}

\* C26: no add-user operation changes the stored hash of a username that
\* already exists: setup_users.add_user, setup_users.create_default_users
\* and the admin "Add User" form of secure_dashboard leave every existing
\* entry of users.json as it was, and add_user leaves the file unchanged on
\* an empty username, an existing username, a mismatched confirmation or a
\* password shorter than 6 characters.
C26_AddKeepsExisting ==
    [][/\ out'.auth.op \in AddOperations =>
             \A n \in DOMAIN FileEntries :
                 /\ n \in DOMAIN FileEntries'
                 /\ FileEntries'[n] = FileEntries[n]
       /\ \A typed \in AddNames, pw \in AddPasswords, confirm \in AddPasswords :
             (\/ Strip(typed) = <<>>
              \/ Strip(typed) \in DOMAIN FileEntries
              \/ pw # confirm
              \/ Len(pw) < 6)
                 => add_user(users, typed, pw, confirm) = users]_vars

\* C27: after Logout is pressed every key of the session state (logged_in,
\* username, login_time) is removed and the run that follows shows the
\* login page without reading the inventory; from a session that is not
\* logged in, a run shows inventory data only when it is a login
\* submission that passes the credential check.
C27_LogoutEndsSession ==
    [][/\ out'.auth.op = "logout" =>
             /\ out'.auth.keys_at_rerun = {}
             /\ out'.auth.page = "login"
             /\ ~InventoryRead(out')
             /\ ~LoggedIn(session'.state)
             /\ session'.state.username = <<>>
       /\ (~LoggedIn(session.state) /\ out'.entry \in Apps
              /\ (InventoryRead(out') \/ out'.auth.page = "dashboard")) =>
             /\ out'.auth.op = "login"
             /\ out'.auth.accepted
             /\ Accepts(session.app, users, out'.auth.username, out'.auth.password)]_vars

\* C27 witness: Logout was pressed on the dashboard; the session holds no
\* user and the login page is shown.
C27_Witness ==
    /\ session.app = "secure"
    /\ out.auth.op = "logout"
    /\ out.auth.page = "login"
    /\ "username" \notin session.state.keys
    /\ "login_time" \notin session.state.keys
    /\ ~LoggedIn(session.state)

\* the rows the chart labels with a status
ChartRows(status) ==
    {out.chart[k].idx : k \in {m \in DOMAIN out.chart : out.chart[m].status = status}}

\* C28: for every row with a valid date the status label computed for the
\* chart (Expired, Expiring Soon, Fresh by the calendar-day difference to
\* today) names the partition into which the classifier of the same
\* dashboard puts the row, so the chart's per-status counts equal the
\* Expired / Expiring Soon / Fresh metric counts.
C28_ChartMatchesClassifier ==
    (out.entry \in {"ultra_safe", "bulletproof"} /\ out.classified /\ out.chart # <<>>)
        => /\ ChartRows("Expired") = Expired
           /\ ChartRows("Expiring Soon") = ExpiringSoon
           /\ ChartRows("Fresh") = Fresh
           /\ Cardinality(ChartRows("Expired")) = Len(out.expired)
           /\ Cardinality(ChartRows("Expiring Soon")) = Len(out.expiring_7d)
           /\ Cardinality(ChartRows("Fresh")) = Len(out.fresh)

\* C29: in the cached dashboards a failed load can be recovered from: in
\* every run in which load_and_analyze_inventory yields the failure result
\* the "Refresh Data" control is offered, so that a refresh can clear the
\* cache once inventory.csv has been corrected.
C29_RefreshAfterFailure ==
    (out.entry = "streamlit" /\ out.error # "none") => out.refresh_offered

\* C30: in every summary the Lambda's analyze_inventory returns without an
\* 'error' key, total_items = expired_count + expiring_soon_count +
\* fresh_count, total_items is the number of input rows with a parseable
\* date, len(expired_items) = expired_count and len(expiring_soon_items) =
\* expiring_soon_count.
C30_SummaryCounts ==
    (out.entry = "lambda" /\ "error" \notin DOMAIN out.summary)
        => LET summary == out.summary
           IN /\ summary.total_items
                    = summary.expired_count + summary.expiring_soon_count
                        + summary.fresh_count
              /\ summary.total_items
                    = Cardinality({i \in 1..RowCount :
                          csv.rows[i][out.date_col].kind = "datetime"})
              /\ Len(summary.expired_items) = summary.expired_count
              /\ Len(summary.expiring_soon_items) = summary.expiring_soon_count

\* C30 witness: a summary of a table of two rows, one of them without a
\* parseable date and the other expired.
C30_Witness ==
    /\ out.entry = "lambda"
    /\ "error" \notin DOMAIN out.summary
    /\ RowCount = 2
    /\ out.summary.total_items = 1
    /\ out.summary.expired_count = 1
    /\ Len(out.summary.expired_items) = 1

\* C30 witness: a summary with a row that expires soon and a fresh row.
C30_WitnessSoon ==
    /\ out.entry = "lambda"
    /\ "error" \notin DOMAIN out.summary
    /\ out.summary.total_items = 2
    /\ out.summary.expiring_soon_count = 1
    /\ out.summary.fresh_count = 1
    /\ Len(out.summary.expiring_soon_items) = 1

====
